---- MODULE Spec2Model ----
(***************************************************************************)
(* A model of the settings-merge engine of claude-config                   *)
(* (src/utils/file_operations.py, class SettingsJsonMerger): the hooks     *)
(* merge, the generic deep merge, the proxy guard and merge_settings, the  *)
(* operation that reads the two settings files, merges and writes back.    *)
(*                                                                         *)
(* JSON values are tagged records: a scalar S(s), a list L(<<...>>) and a  *)
(* dict D(f), f a function from key strings to values.  Python mutates     *)
(* lists in place; TLA+ values are immutable, so every operator that the   *)
(* code lets write through an alias comes in two parts: the value it       *)
(* returns and the value the caller's argument holds afterwards            *)
(* (merge_hooks / merge_hooks_target, deep_merge_dict / deep_merge_target).*)
(* A call that raises is told apart from one that returns by a predicate   *)
(* of its own (should_preserve_raises, deep_merge_raises,                  *)
(* json_load_raises).                                                      *)
(*                                                                         *)
(* Two more parts follow the merge engine: FileOperations, which copies    *)
(* the selected items and counts their results (SpecCopy), and             *)
(* ConfigManager (src/utils/config_manager.py), whose toggles rewrite      *)
(* settings.json in place (SpecConfig).  SpecWrite is Spec on a file       *)
(* system whose writes can fail.                                           *)
(***************************************************************************)
EXTENDS Integers, Sequences, FiniteSets, TLC

VARIABLES
    pc,           \* position of the pure-function drivers (SpecHooks, SpecGuard, SpecMerge)
    hooks_in,     \* [target, source]: the two HooksSections handed to merge_hooks
    hooks_out,    \* [result, target, again]: values after the call(s)
    call_in,      \* [target, source]: the documents handed to the guard or the merge
    call_out,     \* [raised, flag, value, target, source]: outcome of the call
    target_file,  \* [exists, doc]: settings.json in the configuration directory
    source_file,  \* the template settings.json (a dict value)
    prev_file,    \* target_file as it was when the last merge_settings started
    start_file,   \* target_file as it was before the first merge_settings
    mem,          \* merge_settings' locals when it returned
    result,       \* the OperationResult of the last merge_settings
    runs,         \* number of merge_settings runs so far
    succeeded,    \* number of them that returned success
    copy_in,      \* [created, items]: what run_copy_operation finds on disk
    copy_out,     \* [done, ret, success_count, skip_count, error_count]
    claude_dir,   \* the configuration directory that ConfigManager works on
    last,         \* the last toggle called: its arguments, result and file operations
    prev,         \* the toggle called before it
    ops           \* number of toggles called so far

hooks_vars == <<hooks_in, hooks_out>>
call_vars == <<call_in, call_out>>
file_vars == <<target_file, source_file, prev_file, start_file, mem, result, runs, succeeded>>
copy_vars == <<copy_in, copy_out>>
config_vars == <<claude_dir, last, prev, ops>>
vars == <<pc, hooks_vars, call_vars, file_vars, copy_vars, config_vars>>

(***************************************************************************)
(* JSON values                                                             *)
(***************************************************************************)
NoMap == [z \in {} |-> z]

S(s) == [k |-> "S", s |-> s, l |-> <<>>, m |-> NoMap]
L(l) == [k |-> "L", s |-> "", l |-> l, m |-> NoMap]
D(m) == [k |-> "D", s |-> "", l |-> <<>>, m |-> m]
\* a number and a boolean, by their JSON text
Num(s) == [k |-> "I", s |-> s, l |-> <<>>, m |-> NoMap]
Bool(s) == [k |-> "B", s |-> s, l |-> <<>>, m |-> NoMap]
\* null
Null == [k |-> "N", s |-> "", l |-> <<>>, m |-> NoMap]
\* The content of a file that is not JSON.
Malformed == [k |-> "X", s |-> "", l |-> <<>>, m |-> NoMap]

IsDict(v) == v.k = "D"
IsList(v) == v.k = "L"

\* json.load raises json.JSONDecodeError
json_load_raises(content) == content.k = "X"

\* key in d
Has(d, key) == key \in DOMAIN d.m

\* d.get(key, default)
Get(d, key, default) == IF key \in DOMAIN d.m THEN d.m[key] ELSE default

\* d[key] = v
SetKey(m, key, v) == [x \in (DOMAIN m) \cup {key} |-> IF x = key THEN v ELSE m[x]]

\* d.pop(key, None)
PopKey(m, key) == [x \in (DOMAIN m) \ {key} |-> m[x]]

(***************************************************************************)
(* merge_hooks                                                             *)
(***************************************************************************)
matcher_of(config) == Get(config, "matcher", S(""))
command_of(hook) == Get(hook, "command", S(""))

\* {config.get('matcher', ''): i for i, config in enumerate(existing_configs)
\*  if isinstance(config, dict)}: a later entry overwrites an earlier one.
existing_matchers_map(existing_configs) ==
    LET dicts == {i \in 1..Len(existing_configs) : IsDict(existing_configs[i])}
        keys == {matcher_of(existing_configs[i]) : i \in dicts}
    IN [mt \in keys |->
          CHOOSE i \in dicts :
              /\ matcher_of(existing_configs[i]) = mt
              /\ \A j \in dicts : matcher_of(existing_configs[j]) = mt => j <= i]

\* {h.get('command', '') for h in existing_hooks if isinstance(h, dict)}
existing_commands(existing_hooks) ==
    {command_of(existing_hooks[i]) :
        i \in {j \in 1..Len(existing_hooks) : IsDict(existing_hooks[j])}}

\* Mutant of merge_commands: appends every incoming hook, no lookup by command.
merge_commands_no_dedup(existing_hooks, new_hooks) ==
    existing_hooks \o SelectSeq(new_hooks, IsDict)

\* Mutant of merge_commands: the incoming hooks are put in front.
merge_commands_prepend(existing_hooks, new_hooks) ==
    LET seen == existing_commands(existing_hooks)
        fresh(hook) == IsDict(hook) /\ command_of(hook) \notin seen
    IN SelectSeq(new_hooks, fresh) \o existing_hooks

\* The loop over new_hooks: existing_commands is computed once, before the loop.
merge_commands(existing_hooks, new_hooks) ==
    LET seen == existing_commands(existing_hooks)
        fresh(hook) == IsDict(hook) /\ command_of(hook) \notin seen
    IN existing_hooks \o SelectSeq(new_hooks, fresh)

\* Mutant of merge_config: a new matcher is put in front of the list.
merge_config_prepend(existing_configs, matchers_map, config) ==
    IF ~IsDict(config) THEN existing_configs
    ELSE IF matcher_of(config) \notin DOMAIN matchers_map
    THEN <<config>> \o existing_configs
    ELSE LET existing_index == matchers_map[matcher_of(config)]
             existing_config == existing_configs[existing_index]
             existing_hooks == Get(existing_config, "hooks", L(<<>>)).l
             new_hooks == Get(config, "hooks", L(<<>>)).l
         IN [existing_configs EXCEPT ![existing_index] =
                D(SetKey(existing_config.m, "hooks",
                         L(merge_commands(existing_hooks, new_hooks))))]

\* One iteration of "for config in source_configs": existing_configs after it.
\* existing_matchers_map was built before the loop and is not updated.
merge_config(existing_configs, matchers_map, config) ==
    IF ~IsDict(config) THEN existing_configs
    ELSE IF matcher_of(config) \notin DOMAIN matchers_map
    THEN Append(existing_configs, config)
    ELSE LET existing_index == matchers_map[matcher_of(config)]
             existing_config == existing_configs[existing_index]
             existing_hooks == Get(existing_config, "hooks", L(<<>>)).l
             new_hooks == Get(config, "hooks", L(<<>>)).l
         IN [existing_configs EXCEPT ![existing_index] =
                D(SetKey(existing_config.m, "hooks",
                         L(merge_commands(existing_hooks, new_hooks))))]

RECURSIVE merge_configs_from(_, _, _, _)
merge_configs_from(existing_configs, matchers_map, source_configs, i) ==
    IF i > Len(source_configs) THEN existing_configs
    ELSE merge_configs_from(
             merge_config(existing_configs, matchers_map, source_configs[i]),
             matchers_map, source_configs, i + 1)

\* The list existing_configs once the loop over source_configs has ended.
merge_event(existing_configs, source_configs) ==
    merge_configs_from(existing_configs, existing_matchers_map(existing_configs),
                       source_configs, 1)

\* The caller's target_hooks after merge_hooks returned: result is a shallow
\* copy, so the event lists of the target are the lists the loop appends to.
merge_hooks_target(target_hooks, source_hooks) ==
    D([event_type \in DOMAIN target_hooks.m |->
        IF /\ event_type \in DOMAIN source_hooks.m
           /\ IsList(target_hooks.m[event_type])
           /\ IsList(source_hooks.m[event_type])
        THEN L(merge_event(target_hooks.m[event_type].l, source_hooks.m[event_type].l))
        ELSE target_hooks.m[event_type]])

\* The value merge_hooks returns.
merge_hooks(target_hooks, source_hooks) ==
    LET after == merge_hooks_target(target_hooks, source_hooks)
    IN D([event_type \in (DOMAIN target_hooks.m) \cup (DOMAIN source_hooks.m) |->
            IF event_type \in DOMAIN target_hooks.m
            THEN after.m[event_type]
            ELSE source_hooks.m[event_type]])

(***************************************************************************)
(* The proxy guard                                                         *)
(***************************************************************************)
\* key in env, for the env values the documents of this model hold: a dict
\* (key lookup), a list (element lookup) or a string (substring lookup; the
\* only strings of the model that contain a proxy key are the keys themselves).
KeyIn(key, env) ==
    CASE IsDict(env) -> key \in DOMAIN env.m
      [] IsList(env) -> \E i \in 1..Len(env.l) : env.l[i] = S(key)
      [] OTHER -> env.s = key

\* key in env raises TypeError when env is None.
KeyIn_raises(env) == env.k = "N"

should_preserve_raises(target_data) ==
    KeyIn_raises(Get(target_data, "env", D(NoMap)))

\* Mutant of should_preserve_proxy_config: looks for http_proxy only.
should_preserve_http_only(target_data) ==
    KeyIn("http_proxy", Get(target_data, "env", D(NoMap)))

should_preserve_proxy_config(target_data) ==
    LET env == Get(target_data, "env", D(NoMap))
    IN KeyIn("http_proxy", env) \/ KeyIn("https_proxy", env)

\* Mutant of filter_proxy_from_source: pops http_proxy only.
filter_proxy_http_only(source_data) ==
    IF Has(source_data, "env") /\ IsDict(source_data.m["env"])
    THEN LET env == PopKey(source_data.m["env"].m, "http_proxy")
         IN IF DOMAIN env # {}
            THEN D(SetKey(source_data.m, "env", D(env)))
            ELSE D(PopKey(source_data.m, "env"))
    ELSE source_data

\* The caller's source_data after filter_proxy_from_source returned: result
\* and env are copies (lines 26, 28), and every write and pop goes to them.
filter_proxy_source(source_data) == source_data

filter_proxy_from_source(source_data) ==
    IF Has(source_data, "env") /\ IsDict(source_data.m["env"])
    THEN LET env == PopKey(PopKey(source_data.m["env"].m, "http_proxy"), "https_proxy")
         IN IF DOMAIN env # {}
            THEN D(SetKey(source_data.m, "env", D(env)))
            ELSE D(PopKey(source_data.m, "env"))
    ELSE source_data

(***************************************************************************)
(* deep_merge_dict                                                         *)
(***************************************************************************)
\* The member of seen an item is compared with: Python's set looks an item up
\* by hash and ==, and True == 1, False == 0.
seen_key(item) ==
    IF item.k = "B" THEN Num(IF item.s = "true" THEN "1" ELSE "0") ELSE item

\* The loop over combined: dicts are always kept, other items once.
RECURSIVE unique_from(_, _, _, _)
unique_from(combined, i, seen, unique_combined) ==
    IF i > Len(combined) THEN unique_combined
    ELSE IF IsDict(combined[i])
    THEN unique_from(combined, i + 1, seen, Append(unique_combined, combined[i]))
    ELSE IF seen_key(combined[i]) \in seen
    THEN unique_from(combined, i + 1, seen, unique_combined)
    ELSE unique_from(combined, i + 1, seen \cup {seen_key(combined[i])},
                     Append(unique_combined, combined[i]))

merge_lists(target_list, source_list) ==
    unique_from(target_list \o source_list, 1, {}, <<>>)

\* "item not in seen" raises TypeError (unhashable) for an item that is a list.
merge_lists_raises(target_list, source_list) ==
    LET combined == target_list \o source_list
    IN \E i \in 1..Len(combined) : IsList(combined[i])

\* deep_merge_dict raises: some list merge it reaches does.  The hooks
\* sections of this model are well formed, and merge_hooks returns for them.
RECURSIVE deep_merge_raises(_, _)
deep_merge_raises(target, source) ==
    \E key \in (DOMAIN target.m) \cap (DOMAIN source.m) :
        \/ /\ IsDict(target.m[key]) /\ IsDict(source.m[key]) /\ key # "hooks"
           /\ deep_merge_raises(target.m[key], source.m[key])
        \/ /\ IsList(target.m[key]) /\ IsList(source.m[key])
           /\ merge_lists_raises(target.m[key].l, source.m[key].l)

\* The caller's target after deep_merge_dict returned.  result is a shallow
\* copy of target: the nested dicts are copied by the recursive calls, the
\* lists under a "hooks" dict are shared and written by merge_hooks.
RECURSIVE deep_merge_target(_, _)
deep_merge_target(target, source) ==
    D([key \in DOMAIN target.m |->
        IF key \in DOMAIN source.m /\ IsDict(target.m[key]) /\ IsDict(source.m[key])
        THEN IF key = "hooks"
             THEN merge_hooks_target(target.m[key], source.m[key])
             ELSE deep_merge_target(target.m[key], source.m[key])
        ELSE target.m[key]])

\* Mutant of deep_merge_dict: the source's value replaces the target's under
\* every key the source has, as dict.update does.
deep_merge_update(target, source) ==
    D([key \in (DOMAIN target.m) \cup (DOMAIN source.m) |->
        IF key \in DOMAIN source.m THEN source.m[key] ELSE target.m[key]])

\* The value deep_merge_dict returns.
RECURSIVE deep_merge_dict(_, _)
deep_merge_dict(target, source) ==
    D([key \in (DOMAIN target.m) \cup (DOMAIN source.m) |->
        IF key \notin DOMAIN source.m THEN target.m[key]
        ELSE IF key \notin DOMAIN target.m THEN source.m[key]
        ELSE IF IsDict(target.m[key]) /\ IsDict(source.m[key])
        THEN IF key = "hooks"
             THEN merge_hooks(target.m[key], source.m[key])
             ELSE deep_merge_dict(target.m[key], source.m[key])
        ELSE IF IsList(target.m[key]) /\ IsList(source.m[key])
        THEN L(merge_lists(target.m[key].l, source.m[key].l))
        ELSE source.m[key]])

(***************************************************************************)
(* Bounded inputs: hooks sections                                          *)
(***************************************************************************)
Matchers == {"Write", "Bash"}
Commands == {"lint.sh", "fmt.sh"}
Events == {"PreToolUse", "PostToolUse"}

\* Size of a hooks section: one per event, per MatcherEntry and per CommandEntry.
MaxTargetHooks == 3
MaxSourceHooks == 4

CommandEntry(c) == D([type |-> S("command"), command |-> S(c)])
MatcherEntry(mt, hooks) == D([matcher |-> S(mt), hooks |-> L(hooks)])

CommandLists(n) ==
    UNION {[1..len -> {CommandEntry(c) : c \in Commands}] : len \in 0..n}

EntrySize(entry) == 1 + Len(entry.m["hooks"].l)

MatcherEntries(n) ==
    IF n < 1 THEN {}
    ELSE {MatcherEntry(mt, hooks) : mt \in Matchers, hooks \in CommandLists(n - 1)}

RECURSIVE ConfigLists(_)
ConfigLists(n) ==
    {<<>>} \cup
    UNION {{<<entry>> \o rest : rest \in ConfigLists(n - EntrySize(entry))} :
              entry \in MatcherEntries(n)}

RECURSIVE ListSize(_)
ListSize(configs) ==
    IF configs = <<>> THEN 0 ELSE EntrySize(Head(configs)) + ListSize(Tail(configs))

RECURSIVE SumSizes(_, _)
SumSizes(f, keys) ==
    IF keys = {} THEN 0
    ELSE LET e == CHOOSE x \in keys : TRUE
         IN 1 + ListSize(f[e].l) + SumSizes(f, keys \ {e})

HooksSize(hooks) == SumSizes(hooks.m, DOMAIN hooks.m)

HooksSections(n) ==
    IF n < 0 THEN {}
    ELSE LET lists == {L(c) : c \in ConfigLists(n - 1)}
             all == UNION {[evs -> lists] : evs \in SUBSET Events}
         IN {D(f) : f \in {g \in all : SumSizes(g, DOMAIN g) <= n}}

TargetHooks == HooksSections(MaxTargetHooks)
SourceHooks == HooksSections(MaxSourceHooks)

(***************************************************************************)
(* The pure-function driver: merge_hooks(H, T), then merge_hooks of the    *)
(* returned section with T again.                                          *)
(***************************************************************************)
NoHooks == D(NoMap)
NoDoc == D(NoMap)
NoResult == [op |-> "none", success |-> FALSE, skipped |-> FALSE]
NoMem == [target_data |-> NoDoc, source_data |-> NoDoc, merged_data |-> NoDoc]
NoFile == [exists |-> FALSE, doc |-> NoDoc]

NoCall == [raised |-> FALSE, flag |-> FALSE, value |-> NoDoc,
           target |-> NoDoc, source |-> NoDoc]

NoCopy == [done |-> FALSE, ret |-> FALSE,
           success_count |-> 0, skip_count |-> 0, error_count |-> 0]

\* run_copy_operation is not under study.
CopyIdle ==
    /\ copy_in = [created |-> TRUE, items |-> <<>>]
    /\ copy_out = NoCopy

NoKeyFile == [exists |-> FALSE, text |-> ""]

NoFiles == [settings_file |-> NoFile, api_key_file |-> NoKeyFile,
            hooks_backup_file |-> NoFile, backup_file |-> NoFile]

NoOp == [op |-> "none", language |-> "", enabled |-> FALSE, tty |-> FALSE, input |-> "",
         success |-> FALSE, raised |-> FALSE, events |-> <<>>, before |-> NoFiles]

\* No toggle is under study.
ConfigIdle ==
    /\ claude_dir = NoFiles
    /\ last = NoOp
    /\ prev = NoOp
    /\ ops = 0

FileIdle ==
    /\ target_file = NoFile /\ source_file = NoDoc /\ prev_file = NoFile
    /\ start_file = NoFile
    /\ mem = NoMem /\ result = NoResult /\ runs = 0 /\ succeeded = 0

CallIdle ==
    /\ call_in = [target |-> NoDoc, source |-> NoDoc]
    /\ call_out = NoCall

InitHooks ==
    /\ ConfigIdle
    /\ CopyIdle
    /\ pc = "start"
    /\ hooks_in \in [target : TargetHooks, source : SourceHooks]
    /\ hooks_out = [result |-> NoHooks, target |-> NoHooks, again |-> NoHooks]
    /\ CallIdle
    /\ FileIdle

CallMergeHooks ==
    /\ pc = "start"
    /\ pc' = "merged"
    /\ hooks_out' = [hooks_out EXCEPT
                        !.result = merge_hooks(hooks_in.target, hooks_in.source),
                        !.target = merge_hooks_target(hooks_in.target, hooks_in.source)]
    /\ UNCHANGED <<config_vars, copy_vars, hooks_in, call_vars, file_vars>>

CallMergeHooksAgain ==
    /\ pc = "merged"
    /\ pc' = "again"
    /\ hooks_out' = [hooks_out EXCEPT
                        !.again = merge_hooks(hooks_out.result, hooks_in.source)]
    /\ UNCHANGED <<config_vars, copy_vars, hooks_in, call_vars, file_vars>>

NextHooks == CallMergeHooks \/ CallMergeHooksAgain

SpecHooks == InitHooks /\ [][NextHooks]_vars

(***************************************************************************)
(* Bounded inputs: settings documents with an env mapping, a hooks section *)
(* and a list-valued key                                                   *)
(***************************************************************************)
ProxyKeys == {"http_proxy", "https_proxy"}
EnvKeys == ProxyKeys \cup {"API_TIMEOUT_MS"}
EnvValues == {"http://A", "http://B"}
ListItems == {S("docs"), D([name |-> S("p")]), L(<<>>)}

\* Size of a document: one per top-level key, plus the env entries, the size
\* of the hooks section and the length of the list.
MaxTargetDoc == 3
MaxSourceDoc == 4
\* merge_settings runs per behaviour
MaxRuns == 3

EnvParts(n) ==
    {NoMap, "env" :> Null} \cup
    {("env" :> D(f)) :
        f \in UNION {[keys -> {S(v) : v \in EnvValues}] :
                        keys \in {ks \in SUBSET EnvKeys : Cardinality(ks) <= n - 1}}}

HooksParts(n) == {NoMap} \cup {("hooks" :> h) : h \in HooksSections(n - 1)}

ListParts(n) ==
    {NoMap} \cup
    {("plugins" :> L(items)) : items \in UNION {[1..len -> ListItems] : len \in 0..(n - 1)}}

DocSize(doc) ==
    (IF Has(doc, "env") THEN 1 + Cardinality(DOMAIN doc.m["env"].m) ELSE 0)
    + (IF Has(doc, "hooks") THEN 1 + HooksSize(doc.m["hooks"]) ELSE 0)
    + (IF Has(doc, "plugins") THEN 1 + Len(doc.m["plugins"].l) ELSE 0)

\* The documents of size up to n: an env part of size k, a hooks part that
\* fits into n - k and a list part that fits into the rest.
Documents(n) ==
    UNION {UNION {{D(e @@ h @@ p) : p \in ListParts(n - k - DocSize(D(h)))} :
                     e \in {part \in EnvParts(n) : DocSize(D(part)) = k},
                     h \in HooksParts(n - k)} :
              k \in 0..n}

TargetDocs == Documents(MaxTargetDoc)
SourceDocs == Documents(MaxSourceDoc)

\* What the two files can hold: a document, or text that is not JSON.
TargetContents == TargetDocs \cup {Malformed}
SourceContents == SourceDocs \cup {Malformed}

(***************************************************************************)
(* merge_settings: the target file and the template, run after run         *)
(***************************************************************************)
HooksIdle ==
    /\ pc = "start"
    /\ hooks_in = [target |-> NoHooks, source |-> NoHooks]
    /\ hooks_out = [result |-> NoHooks, target |-> NoHooks, again |-> NoHooks]

Init ==
    /\ ConfigIdle
    /\ CopyIdle
    /\ HooksIdle
    /\ CallIdle
    /\ target_file \in {NoFile} \cup {[exists |-> TRUE, doc |-> d] : d \in TargetContents}
    /\ source_file \in SourceContents
    /\ prev_file = NoFile
    /\ start_file = target_file
    /\ mem = NoMem
    /\ result = NoResult
    /\ runs = 0
    /\ succeeded = 0

\* Mutant of json_error: the target file is opened for writing before the
\* documents are parsed, and is left empty.
json_error_truncates ==
    /\ \/ json_load_raises(source_file)
       \/ target_file.exists /\ json_load_raises(target_file.doc)
    /\ mem' = NoMem
    /\ target_file' = [exists |-> TRUE, doc |-> Malformed]
    /\ result' = [op |-> "json_error", success |-> FALSE, skipped |-> FALSE]

\* One of the two json.load calls raises (lines 120, 125): the handler of
\* line 167 returns the failure, and nothing was written.
json_error ==
    /\ \/ json_load_raises(source_file)
       \/ target_file.exists /\ json_load_raises(target_file.doc)
    /\ mem' = NoMem
    /\ target_file' = target_file
    /\ result' = [op |-> "json_error", success |-> FALSE, skipped |-> FALSE]

\* Both files parse and the guard or the merge raises (lines 128, 136): the
\* handler of line 169 returns the failure before the file is opened for
\* writing.
merge_failed ==
    LET target_data == target_file.doc
        raised == \/ should_preserve_raises(target_data)
                  \/ deep_merge_raises(target_data,
                        IF should_preserve_proxy_config(target_data)
                        THEN filter_proxy_from_source(source_file)
                        ELSE source_file)
    IN /\ ~json_load_raises(source_file)
       /\ target_file.exists
       /\ ~json_load_raises(target_data)
       /\ raised
       /\ mem' = NoMem
       /\ target_file' = target_file
       /\ result' = [op |-> "failed", success |-> FALSE, skipped |-> FALSE]

\* The branch for an existing target file (lines 123-151).
merge_existing ==
    LET target_data == target_file.doc
        preserve_proxy == should_preserve_proxy_config(target_data)
        source_data == IF preserve_proxy
                       THEN filter_proxy_from_source(source_file)
                       ELSE source_file
        merged_data == deep_merge_dict(target_data, source_data)
        \* target_data as the comparison of line 139 reads it
        target_after == deep_merge_target(target_data, source_data)
    IN /\ ~json_load_raises(source_file)
       /\ target_file.exists
       /\ ~json_load_raises(target_data)
       /\ ~should_preserve_raises(target_data)
       /\ ~deep_merge_raises(target_data, source_data)
       /\ mem' = [target_data |-> target_after, source_data |-> source_data,
                  merged_data |-> merged_data]
       /\ IF merged_data # target_after
          THEN /\ target_file' = [exists |-> TRUE, doc |-> merged_data]
               /\ result' = [op |-> "merged", success |-> TRUE, skipped |-> FALSE]
          ELSE /\ target_file' = target_file
               /\ result' = [op |-> "nochange", success |-> TRUE, skipped |-> TRUE]

\* Mutant of copy_fresh: the template is written as it is.
copy_fresh_unfiltered ==
    /\ ~json_load_raises(source_file)
    /\ ~target_file.exists
    /\ mem' = [target_data |-> NoDoc, source_data |-> source_file,
               merged_data |-> NoDoc]
    /\ target_file' = [exists |-> TRUE, doc |-> source_file]
    /\ result' = [op |-> "copied", success |-> TRUE, skipped |-> FALSE]

\* The branch for a missing target file (lines 152-165).
copy_fresh ==
    LET has_proxy == /\ Has(source_file, "env")
                     /\ IsDict(source_file.m["env"])
                     /\ \/ Has(source_file.m["env"], "http_proxy")
                        \/ Has(source_file.m["env"], "https_proxy")
        source_data == IF has_proxy
                       THEN filter_proxy_from_source(source_file)
                       ELSE source_file
    IN /\ ~json_load_raises(source_file)
       /\ ~target_file.exists
       /\ mem' = [target_data |-> NoDoc, source_data |-> source_data,
                  merged_data |-> NoDoc]
       /\ target_file' = [exists |-> TRUE, doc |-> source_data]
       /\ result' = [op |-> "copied", success |-> TRUE, skipped |-> FALSE]

\* Where the write of lines 146-147 or 163-164 can raise: in open, before the
\* file is touched, or in json.dump, after open(..., 'w') has emptied it.
WriteSteps == {"open", "dump"}

\* Both files parse, the run gets as far as writing the target and the write
\* raises: the handler of line 169 returns the failure.  A file that json.dump
\* did not finish holds text that is not JSON.
write_failed ==
    LET target_data == target_file.doc
        source_data == IF should_preserve_proxy_config(target_data)
                       THEN filter_proxy_from_source(source_file)
                       ELSE source_file
    IN /\ ~json_load_raises(source_file)
       /\ target_file.exists =>
             /\ ~json_load_raises(target_data)
             /\ ~should_preserve_raises(target_data)
             /\ ~deep_merge_raises(target_data, source_data)
             /\ deep_merge_dict(target_data, source_data)
                    # deep_merge_target(target_data, source_data)
       /\ \E step \in WriteSteps :
             target_file' = IF step = "open" THEN target_file
                            ELSE [exists |-> TRUE, doc |-> Malformed]
       /\ mem' = NoMem
       /\ result' = [op |-> "write_failed", success |-> FALSE, skipped |-> FALSE]

merge_settings ==
    /\ runs < MaxRuns
    /\ runs' = runs + 1
    /\ prev_file' = target_file
    /\ (json_error \/ merge_failed \/ merge_existing \/ copy_fresh)
    /\ succeeded' = IF result'.success THEN succeeded + 1 ELSE succeeded
    /\ UNCHANGED <<config_vars, copy_vars, pc, hooks_vars, call_vars, source_file, start_file>>

Next == merge_settings

Spec == Init /\ [][Next]_vars

\* A run of merge_settings whose write of the target raises.
merge_settings_write_failed ==
    /\ runs < MaxRuns
    /\ runs' = runs + 1
    /\ prev_file' = target_file
    /\ write_failed
    /\ succeeded' = succeeded
    /\ UNCHANGED <<config_vars, copy_vars, pc, hooks_vars, call_vars, source_file, start_file>>

\* merge_settings on a file system whose writes can fail.
NextWrite == merge_settings \/ merge_settings_write_failed

SpecWrite == Init /\ [][NextWrite]_vars

(***************************************************************************)
(* Bounded inputs: documents of any shape.  Values are scalars, lists      *)
(* (lists of lists included) and mappings, nested to any depth the weight  *)
(* allows; env can be null, a string or a list as well as a mapping.       *)
(***************************************************************************)
Scalars == {S("a"), Num("1"), Bool("true")}
Keys == {"x", "y"}

\* The weight of a value: one for the value itself plus the weights of its
\* items or entries.
MaxTargetValue == 3
MaxSourceValue == 4
MaxGuardDoc == 4

RECURSIVE ValuesOf(_), SeqsOf(_), MapsOver(_, _)
\* The values of weight w
ValuesOf(w) ==
    IF w < 1 THEN {}
    ELSE (IF w = 1 THEN Scalars ELSE {})
         \cup {L(items) : items \in SeqsOf(w - 1)}
         \cup {D(m) : m \in MapsOver(Keys, w - 1)}

\* The sequences of values whose weights add up to w
SeqsOf(w) ==
    IF w = 0 THEN {<<>>}
    ELSE UNION {{<<v>> \o rest : v \in ValuesOf(h), rest \in SeqsOf(w - h)} : h \in 1..w}

\* The mappings from some of keys to values whose weights add up to w
MapsOver(keys, w) ==
    IF keys = {} THEN (IF w = 0 THEN {NoMap} ELSE {})
    ELSE LET key == CHOOSE k \in keys : TRUE
             rest == keys \ {key}
         IN MapsOver(rest, w) \cup
            UNION {{(key :> v) @@ m : v \in ValuesOf(h), m \in MapsOver(rest, w - h)} :
                      h \in 1..w}

\* The documents of weight up to n
MergeDocs(n) == UNION {{D(m) : m \in MapsOver(Keys, w)} : w \in 0..(n - 1)}

MergeTargets == MergeDocs(MaxTargetValue)
MergeSources == MergeDocs(MaxSourceValue)

\* env values that are not mappings
OddEnvs == {Null, S("http_proxy"), L(<<S("https_proxy")>>), L(<<>>)}

\* An env part and its weight: the number of its entries.
AnyEnvParts(n) == EnvParts(n) \cup {("env" :> e) : e \in OddEnvs}
EnvWeight(part) ==
    IF part = NoMap THEN 0 ELSE Cardinality(DOMAIN part["env"].m)

\* The other top-level key, of weight up to w: one plus its value's weight.
OtherParts(w) ==
    {NoMap} \cup UNION {{"x" :> value : value \in ValuesOf(v - 1)} : v \in 1..w}

\* The documents with an env of any kind and one more key, of weight up to n
GuardDocs(n) ==
    UNION {{D(e @@ m) : e \in {part \in AnyEnvParts(n) : EnvWeight(part) = n - w},
                        m \in OtherParts(w)} :
              w \in 0..n}

(***************************************************************************)
(* The pure-function driver of the proxy guard: one document, handed to    *)
(* should_preserve_proxy_config or to filter_proxy_from_source             *)
(***************************************************************************)
InitGuard ==
    /\ ConfigIdle
    /\ CopyIdle
    /\ HooksIdle
    /\ FileIdle
    /\ call_in \in {[target |-> doc, source |-> doc] : doc \in GuardDocs(MaxGuardDoc)}
    /\ call_out = NoCall

CallShouldPreserve ==
    /\ pc = "start"
    /\ pc' = "should_preserve"
    /\ call_out' =
          IF should_preserve_raises(call_in.target)
          THEN [NoCall EXCEPT !.raised = TRUE, !.target = call_in.target]
          ELSE [NoCall EXCEPT !.flag = should_preserve_proxy_config(call_in.target),
                              !.target = call_in.target]
    /\ UNCHANGED <<config_vars, copy_vars, call_in, hooks_vars, file_vars>>

CallFilterProxy ==
    /\ pc = "start"
    /\ pc' = "filter"
    /\ call_out' = [NoCall EXCEPT !.value = filter_proxy_from_source(call_in.source),
                                  !.source = filter_proxy_source(call_in.source)]
    /\ UNCHANGED <<config_vars, copy_vars, call_in, hooks_vars, file_vars>>

NextGuard == CallShouldPreserve \/ CallFilterProxy

SpecGuard == InitGuard /\ [][NextGuard]_vars

(***************************************************************************)
(* The pure-function driver of deep_merge_dict(target, source)             *)
(***************************************************************************)
InitMerge ==
    /\ ConfigIdle
    /\ CopyIdle
    /\ HooksIdle
    /\ FileIdle
    /\ call_in \in [target : MergeTargets, source : MergeSources]
    /\ call_out = NoCall

CallDeepMerge ==
    /\ pc = "start"
    /\ pc' = "deep_merge"
    /\ call_out' =
          IF deep_merge_raises(call_in.target, call_in.source)
          THEN [NoCall EXCEPT !.raised = TRUE]
          ELSE [NoCall EXCEPT !.value = deep_merge_dict(call_in.target, call_in.source),
                              !.target = deep_merge_target(call_in.target, call_in.source),
                              !.source = call_in.source]
    /\ UNCHANGED <<config_vars, copy_vars, call_in, hooks_vars, file_vars>>

NextMerge == CallDeepMerge

SpecMerge == InitMerge /\ [][NextMerge]_vars

(***************************************************************************)
(* FileOperations (src/utils/file_operations.py): copying the selected     *)
(* items of the source directory.  An entry of the source tree is a        *)
(* record [kind, out, items]:                                              *)
(*   "file"    a regular file; out is what copy_file returns for it:       *)
(*             "copied" (success), "skipped" (success, skipped) or         *)
(*             "failed" (an exception, or a failed merge_settings);        *)
(*   "dir"     a directory with the entries items; out = "raises" when     *)
(*             creating or listing it raises;                              *)
(*   "hidden"  an entry of a directory whose name starts with a dot;       *)
(*   "other"   an entry that exists and is neither file nor directory;     *)
(*   "missing" a path that does not exist.                                 *)
(***************************************************************************)
File(o) == [kind |-> "file", out |-> o, items |-> <<>>]
Dir(o, items) == [kind |-> "dir", out |-> o, items |-> items]
Entry(k) == [kind |-> k, out |-> "none", items |-> <<>>]

OperationResult(success, skipped) == [success |-> success, skipped |-> skipped]

\* copy_file: the three results it can return.
copy_file(item) ==
    CASE item.out = "copied" -> OperationResult(TRUE, FALSE)
      [] item.out = "skipped" -> OperationResult(TRUE, TRUE)
      [] OTHER -> OperationResult(FALSE, FALSE)

\* The entries of a directory that the loop of line 266 copies.
copied_entries(item) ==
    {i \in 1..Len(item.items) : item.items[i].kind \in {"file", "dir"}}

\* copy_directory: the results of the entries are collected, only the
\* successful ones are counted (line 280), and the directory reports success
\* whatever its entries returned unless it raised itself.
RECURSIVE copy_directory(_)
copy_directory(item) ==
    IF item.out = "raises" THEN OperationResult(FALSE, FALSE)
    ELSE LET results == [i \in copied_entries(item) |->
                            IF item.items[i].kind = "file"
                            THEN copy_file(item.items[i])
                            ELSE copy_directory(item.items[i])]
             success_count == Cardinality({i \in DOMAIN results :
                                  results[i].success /\ ~results[i].skipped})
         IN IF success_count > 0
            THEN OperationResult(TRUE, FALSE)
            ELSE OperationResult(TRUE, TRUE)

copy_item(item) ==
    CASE item.kind = "file" -> copy_file(item)
      [] item.kind = "dir" -> copy_directory(item)
      [] OTHER -> OperationResult(FALSE, FALSE)

\* The selected items that exist (line 320) and their results.
item_results(items) ==
    [i \in {j \in 1..Len(items) : items[j].kind # "missing"} |-> copy_item(items[i])]

\* Bound: the number of entries (files, directories, others) in the source
\* tree of one run.
MaxEntries == 4

FileOutcomes == {"copied", "skipped", "failed"}
Leaves == {File(o) : o \in FileOutcomes}
             \cup {Entry("hidden"), Entry("other"), Entry("missing"), Dir("raises", <<>>)}

RECURSIVE EntryCount(_)
EntryCount(item) ==
    LET RECURSIVE Sum(_)
        Sum(i) == IF i = 0 THEN 0 ELSE EntryCount(item.items[i]) + Sum(i - 1)
    IN 1 + Sum(Len(item.items))

\* The sequences of entries with at most n entries in all, nested ones
\* counted.
RECURSIVE Forests(_)
Trees(n) == IF n = 0 THEN {} ELSE Leaves \cup {Dir("ok", f) : f \in Forests(n - 1)}
Forests(n) ==
    IF n = 0 THEN {<<>>}
    ELSE {<<>>} \cup UNION {{<<t>> \o f : f \in Forests(n - EntryCount(t))} : t \in Trees(n)}

\* What selected_items names in the source directory: never a hidden entry
\* (the default list of lines 179-187 has no dotted name).
SelectedItems(n) ==
    {f \in Forests(n) : \A i \in 1..Len(f) : f[i].kind # "hidden"}

InitCopy ==
    /\ ConfigIdle
    /\ HooksIdle
    /\ CallIdle
    /\ FileIdle
    /\ copy_in \in [created : BOOLEAN, items : SelectedItems(MaxEntries)]
    /\ copy_out = NoCopy

run_copy_operation ==
    /\ pc = "start"
    /\ pc' = "run_copy_operation"
    /\ copy_out' =
          IF ~copy_in.created
          THEN [NoCopy EXCEPT !.done = TRUE, !.ret = FALSE]
          ELSE LET results == item_results(copy_in.items)
                   success_count == Cardinality({i \in DOMAIN results :
                                        results[i].success /\ ~results[i].skipped})
                   skip_count == Cardinality({i \in DOMAIN results :
                                        results[i].success /\ results[i].skipped})
                   error_count == Cardinality({i \in DOMAIN results :
                                        ~results[i].success})
               IN [done |-> TRUE, ret |-> error_count = 0,
                   success_count |-> success_count, skip_count |-> skip_count,
                   error_count |-> error_count]
    /\ UNCHANGED <<config_vars, copy_in, hooks_vars, call_vars, file_vars>>

NextCopy == run_copy_operation

SpecCopy == InitCopy /\ [][NextCopy]_vars

(***************************************************************************)
(* ConfigManager (src/utils/config_manager.py): the toggles that rewrite   *)
(* settings.json in place.  The configuration directory is a record        *)
(*   settings_file      settings.json,                     [exists, doc]   *)
(*   api_key_file       .deepseek_api_key,                 [exists, text]  *)
(*   hooks_backup_file  settings.json.hooks_backup,        [exists, doc]   *)
(*   backup_file        the newest settings.json.backup.*, [exists, doc]   *)
(* and a toggle is an operator from the directory and what the environment *)
(* decides (terminal input, which file operation fails) to an outcome: the *)
(* directory afterwards, the OperationResult, whether the call raised, and *)
(* the file operations it made, in order.                                  *)
(***************************************************************************)
proxy_host == "http://127.0.0.1:7890"
anthropic_base_url == "https://api.deepseek.com/anthropic"
anthropic_model == "deepseek-chat"
anthropic_small_fast_model == "deepseek-chat"

SUPPORTED_LANGUAGES == {"go", "python", "javascript", "rust", "nix", "tilt"}

deepseek_keys == {"ANTHROPIC_AUTH_TOKEN", "ANTHROPIC_BASE_URL",
                  "ANTHROPIC_MODEL", "ANTHROPIC_SMALL_FAST_MODEL"}

command_hook(command) == D([type |-> S("command"), command |-> S(command)])

default_hooks ==
    D([PostToolUse |-> L(<<D([matcher |-> S("Write|Edit|MultiEdit"),
                              hooks |-> L(<<command_hook("~/.claude/hooks/smart-lint.sh"),
                                            command_hook("~/.claude/hooks/smart-test.sh")>>)])>>),
       Stop |-> L(<<D([matcher |-> S(""),
                       hooks |-> L(<<command_hook("~/.claude/hooks/ntfy-notifier.sh")>>)])>>)])

\* str.strip() on the texts of the model
strip(text) ==
    CASE text = "sk-1\n" -> "sk-1"
      [] text = " sk-2 " -> "sk-2"
      [] text = " " -> ""
      [] OTHER -> text

\* str.upper() on the language names
upper(language) ==
    CASE language = "go" -> "GO"
      [] language = "python" -> "PYTHON"
      [] language = "javascript" -> "JAVASCRIPT"
      [] language = "rust" -> "RUST"
      [] language = "nix" -> "NIX"
      [] language = "tilt" -> "TILT"
      [] OTHER -> "RUBY"

\* str.lower() on the env values of the model
lower(text) ==
    CASE text = "TRUE" -> "true"
      [] text = "False" -> "false"
      [] OTHER -> text

\* f"CLAUDE_HOOKS_{language.upper()}_ENABLED"
env_key(language) ==
    CASE upper(language) = "GO" -> "CLAUDE_HOOKS_GO_ENABLED"
      [] upper(language) = "PYTHON" -> "CLAUDE_HOOKS_PYTHON_ENABLED"
      [] upper(language) = "JAVASCRIPT" -> "CLAUDE_HOOKS_JAVASCRIPT_ENABLED"
      [] upper(language) = "RUST" -> "CLAUDE_HOOKS_RUST_ENABLED"
      [] upper(language) = "NIX" -> "CLAUDE_HOOKS_NIX_ENABLED"
      [] upper(language) = "TILT" -> "CLAUDE_HOOKS_TILT_ENABLED"
      [] OTHER -> "CLAUDE_HOOKS_RUBY_ENABLED"

\* What a call leaves behind.
Outcome(files, success, raised, events) ==
    [files |-> files, success |-> success, raised |-> raised, events |-> events]

\* An exception that no handler of ConfigManager catches.
Raised(files, events) == Outcome(files, FALSE, TRUE, events)

_ensure_settings_exists(files) == files.settings_file.exists

\* The directory after _backup_settings: shutil.copy2 copies the bytes of
\* settings.json, or raises and the handler of line 47 goes on.
_backup_settings(files, backup_ok) ==
    IF backup_ok THEN [files EXCEPT !.backup_file = files.settings_file] ELSE files

\* _load_settings: the parsed document, {} when reading or parsing raises.
_load_settings(files) ==
    IF json_load_raises(files.settings_file.doc) THEN D(NoMap)
    ELSE files.settings_file.doc

\* How a write of a JSON file ends: written, open raised (file untouched), or
\* json.dump raised after open(..., 'w') emptied the file.
SaveOutcomes == {"ok"} \cup WriteSteps

written(file, doc, save) ==
    CASE save = "ok" -> [exists |-> TRUE, doc |-> doc]
      [] save = "open" -> file
      [] OTHER -> [exists |-> TRUE, doc |-> Malformed]

\* The directory after _save_settings; it returns save = "ok".
_save_settings(files, settings, save) ==
    [files EXCEPT !.settings_file = written(@, settings, save)]

\* settings.get(key, default) raises AttributeError unless settings is a dict.
get_raises(settings) == ~IsDict(settings)

\* enable_proxy as it would be if it wrote a document of its own, with nothing
\* but env in it.
enable_proxy_env_only(files, save) ==
    IF ~_ensure_settings_exists(files) THEN Outcome(files, FALSE, FALSE, <<>>)
    ELSE LET settings == _load_settings(files)
         IN IF get_raises(settings) THEN Raised(files, <<>>)
            ELSE LET env == D([http_proxy |-> S(proxy_host), https_proxy |-> S(proxy_host)])
                     saved == D([x \in {"env"} |-> env])
                 IN Outcome(_save_settings(files, saved, save), save = "ok", FALSE,
                            <<"write">>)

enable_proxy(files, save) ==
    IF ~_ensure_settings_exists(files) THEN Outcome(files, FALSE, FALSE, <<>>)
    ELSE LET settings == _load_settings(files)
         IN IF get_raises(settings) THEN Raised(files, <<>>)
            ELSE LET hooks_config == Get(settings, "hooks", D(NoMap))
                     env == D([http_proxy |-> S(proxy_host), https_proxy |-> S(proxy_host)])
                     saved == D(SetKey(SetKey(settings.m, "env", env), "hooks", hooks_config))
                 IN Outcome(_save_settings(files, saved, save), save = "ok", FALSE,
                            <<"write">>)

\* 'env' in settings is False for a list that does not hold the string.
disable_proxy(files, save) ==
    IF ~_ensure_settings_exists(files) THEN Outcome(files, FALSE, FALSE, <<>>)
    ELSE LET settings == _load_settings(files)
             saved == IF Has(settings, "env") THEN D(PopKey(settings.m, "env"))
                      ELSE settings
         IN Outcome(_save_settings(files, saved, save), save = "ok", FALSE, <<"write">>)

\* 'ANTHROPIC_AUTH_TOKEN' in env, env a dict or a string.
check_deepseek_status(files) ==
    IF ~_ensure_settings_exists(files) THEN "False"
    ELSE LET settings == _load_settings(files)
         IN IF get_raises(settings) THEN "raises"
            ELSE IF Has(Get(settings, "env", D(NoMap)), "ANTHROPIC_AUTH_TOKEN")
                 THEN "True" ELSE "False"

\* _get_api_key: [token, files, events]; token "" stands for None and for the
\* empty string, which line 155 treats alike.  key_ok tells whether the key
\* file can be read (when it exists) or written (when it does not).
_get_api_key(files, tty, input, key_ok) ==
    IF files.api_key_file.exists
    THEN [token |-> IF key_ok THEN strip(files.api_key_file.text) ELSE "",
          files |-> files, events |-> <<>>]
    ELSE IF tty /\ strip(input) # ""
         THEN IF key_ok
              THEN [token |-> strip(input),
                    files |-> [files EXCEPT !.api_key_file =
                                  [exists |-> TRUE, text |-> strip(input)]],
                    events |-> <<"write_key">>]
              ELSE [token |-> "", files |-> files, events |-> <<"write_key">>]
         ELSE [token |-> "", files |-> files, events |-> <<>>]

\* current_env.update({...}) of lines 164-169
deepseek_env(env, api_token) ==
    [x \in (DOMAIN env) \cup deepseek_keys |->
        CASE x = "ANTHROPIC_AUTH_TOKEN" -> S(api_token)
          [] x = "ANTHROPIC_BASE_URL" -> S(anthropic_base_url)
          [] x = "ANTHROPIC_MODEL" -> S(anthropic_model)
          [] x = "ANTHROPIC_SMALL_FAST_MODEL" -> S(anthropic_small_fast_model)
          [] OTHER -> env[x]]

\* enable_deepseek as it would be if the backup were made before the key is
\* asked for.
enable_deepseek_backup_first(files, tty, input, key_ok, backup_ok, save) ==
    IF ~_ensure_settings_exists(files) THEN Outcome(files, FALSE, FALSE, <<>>)
    ELSE LET backed == _backup_settings(files, backup_ok)
             key == _get_api_key(backed, tty, input, key_ok)
         IN IF key.token = ""
            THEN Outcome(key.files, FALSE, FALSE, <<"backup">> \o key.events)
            ELSE LET events == <<"backup">> \o key.events
                     settings == _load_settings(key.files)
                 IN IF get_raises(settings) \/ ~IsDict(Get(settings, "env", D(NoMap)))
                    THEN Raised(key.files, events)
                    ELSE LET current_env == Get(settings, "env", D(NoMap))
                             saved == D(SetKey(settings.m, "env",
                                               D(deepseek_env(current_env.m, key.token))))
                         IN Outcome(_save_settings(key.files, saved, save), save = "ok",
                                    FALSE, events \o <<"write">>)

enable_deepseek(files, tty, input, key_ok, backup_ok, save) ==
    IF ~_ensure_settings_exists(files) THEN Outcome(files, FALSE, FALSE, <<>>)
    ELSE LET key == _get_api_key(files, tty, input, key_ok)
         IN IF key.token = ""
            THEN Outcome(key.files, FALSE, FALSE, key.events)
            ELSE LET backed == _backup_settings(key.files, backup_ok)
                     events == key.events \o <<"backup">>
                     settings == _load_settings(backed)
                 IN IF get_raises(settings) \/ ~IsDict(Get(settings, "env", D(NoMap)))
                    THEN Raised(backed, events)
                    ELSE LET current_env == Get(settings, "env", D(NoMap))
                             saved == D(SetKey(settings.m, "env",
                                               D(deepseek_env(current_env.m, key.token))))
                         IN Outcome(_save_settings(backed, saved, save), save = "ok",
                                    FALSE, events \o <<"write">>)

\* The env that lines 188-190 leave: the DeepSeek keys popped.
without_deepseek(env) == [x \in (DOMAIN env) \ deepseek_keys |-> env[x]]

\* disable_deepseek as it would be if it dropped env like disable_proxy does.
disable_deepseek_drop_env(files, backup_ok, save) ==
    IF ~_ensure_settings_exists(files) THEN Outcome(files, FALSE, FALSE, <<>>)
    ELSE LET backed == _backup_settings(files, backup_ok)
             settings == _load_settings(backed)
         IN IF get_raises(settings) \/ ~IsDict(Get(settings, "env", D(NoMap)))
            THEN Raised(backed, <<"backup">>)
            ELSE Outcome(_save_settings(backed, D(PopKey(settings.m, "env")), save),
                         save = "ok", FALSE, <<"backup", "write">>)

disable_deepseek(files, backup_ok, save) ==
    IF ~_ensure_settings_exists(files) THEN Outcome(files, FALSE, FALSE, <<>>)
    ELSE LET backed == _backup_settings(files, backup_ok)
             settings == _load_settings(backed)
         IN IF get_raises(settings) \/ ~IsDict(Get(settings, "env", D(NoMap)))
            THEN Raised(backed, <<"backup">>)
            ELSE LET env == without_deepseek(Get(settings, "env", D(NoMap)).m)
                     saved == IF env # NoMap THEN D(SetKey(settings.m, "env", D(env)))
                              ELSE D(PopKey(settings.m, "env"))
                 IN Outcome(_save_settings(backed, saved, save), save = "ok", FALSE,
                            <<"backup", "write">>)

\* bool(hooks) of line 296: a non-empty dict, list or string.
truthy(value) ==
    CASE value.k = "D" -> value.m # NoMap
      [] value.k = "L" -> value.l # <<>>
      [] value.k = "S" -> value.s # ""
      [] value.k = "N" -> FALSE
      [] OTHER -> TRUE

\* The hooks enable_hooks restores: the backup file's document when the file
\* exists and parses, the built-in ones otherwise.
restored_hooks(files) ==
    IF files.hooks_backup_file.exists /\ ~json_load_raises(files.hooks_backup_file.doc)
    THEN files.hooks_backup_file.doc
    ELSE default_hooks

\* enable_hooks as it would be if it always used the built-in hooks.
enable_hooks_default(files, save) ==
    IF ~_ensure_settings_exists(files) THEN Outcome(files, FALSE, FALSE, <<>>)
    ELSE LET settings == _load_settings(files)
         IN IF ~IsDict(settings) THEN Raised(files, <<>>)
            ELSE Outcome(_save_settings(files, D(SetKey(settings.m, "hooks", default_hooks)),
                                        save),
                         save = "ok", FALSE, <<"write">>)

\* settings['hooks'] = ... raises TypeError when settings is a list.
enable_hooks(files, save) ==
    IF ~_ensure_settings_exists(files) THEN Outcome(files, FALSE, FALSE, <<>>)
    ELSE LET settings == _load_settings(files)
             hooks_config == restored_hooks(files)
         IN IF ~IsDict(settings) THEN Raised(files, <<>>)
            ELSE Outcome(_save_settings(files, D(SetKey(settings.m, "hooks", hooks_config)),
                                        save),
                         save = "ok", FALSE, <<"write">>)

\* The write of the hooks backup (lines 298-302) may fail like any other; the
\* handler of line 301 goes on.
disable_hooks(files, hooks_save, save) ==
    IF ~_ensure_settings_exists(files) THEN Outcome(files, FALSE, FALSE, <<>>)
    ELSE LET settings == _load_settings(files)
         IN IF get_raises(settings) THEN Raised(files, <<>>)
            ELSE LET hooks == Get(settings, "hooks", D(NoMap))
                     backed == IF truthy(hooks)
                               THEN [files EXCEPT !.hooks_backup_file =
                                        written(@, hooks, hooks_save)]
                               ELSE files
                     events == IF truthy(hooks) THEN <<"write_hooks_backup">> ELSE <<>>
                     saved == D(PopKey(settings.m, "hooks"))
                 IN Outcome(_save_settings(backed, saved, save), save = "ok", FALSE,
                            events \o <<"write">>)

\* env.get(env_key, "true").lower() == "true"; env.get raises AttributeError
\* when env is a string.
check_language_hook_status(files, language) ==
    IF ~_ensure_settings_exists(files) THEN "True"
    ELSE IF language \notin SUPPORTED_LANGUAGES THEN "False"
    ELSE LET settings == _load_settings(files)
         IN IF get_raises(settings) \/ ~IsDict(Get(settings, "env", D(NoMap)))
            THEN "raises"
            ELSE LET env == Get(settings, "env", D(NoMap))
                 IN IF lower(Get(env, env_key(language), S("true")).s) = "true"
                    THEN "True" ELSE "False"

\* env[env_key] = ... raises TypeError when env is a string.
set_language_hook_status(files, language, enabled, save) ==
    IF ~_ensure_settings_exists(files) THEN Outcome(files, FALSE, FALSE, <<>>)
    ELSE IF language \notin SUPPORTED_LANGUAGES THEN Outcome(files, FALSE, FALSE, <<>>)
    ELSE LET settings == _load_settings(files)
         IN IF get_raises(settings) \/ ~IsDict(Get(settings, "env", D(NoMap)))
            THEN Raised(files, <<>>)
            ELSE LET env == Get(settings, "env", D(NoMap))
                     flag == S(IF enabled THEN "true" ELSE "false")
                     saved == D(SetKey(settings.m, "env",
                                       D(SetKey(env.m, env_key(language), flag))))
                 IN Outcome(_save_settings(files, saved, save), save = "ok", FALSE,
                            <<"write">>)

(***************************************************************************)
(* The configuration directories the toggles start from                    *)
(***************************************************************************)
\* Bound: the number of toggles in one behaviour.
MaxOps == 2

UserProxy == S("http://A")
UserHooks == D([Stop |-> L(<<D([matcher |-> S(""),
                                hooks |-> L(<<command_hook("echo done")>>)])>>)])
StaleHooks == D([PreToolUse |-> L(<<D([matcher |-> S("Bash"),
                                       hooks |-> L(<<command_hook("echo old")>>)])>>)])

\* The env parts of a settings document: absent, empty, the user's own proxy,
\* DeepSeek keys next to an entry of the user's, language flags, and an env
\* that is not a mapping.
ConfigEnvParts ==
    {NoMap,
     "env" :> D(NoMap),
     "env" :> D([http_proxy |-> UserProxy]),
     "env" :> D([ANTHROPIC_AUTH_TOKEN |-> S("sk-0"), EDITOR |-> S("vim")]),
     "env" :> D([CLAUDE_HOOKS_GO_ENABLED |-> S("false"), https_proxy |-> UserProxy]),
     "env" :> D([CLAUDE_HOOKS_PYTHON_ENABLED |-> S("TRUE")]),
     "env" :> S("x")}

ConfigHooksParts == {NoMap, "hooks" :> UserHooks}

\* The contents of settings.json: the empty document, text that is not JSON,
\* a list, and documents with a key of the user's, with or without hooks.
SettingsDocs ==
    {D(NoMap), Malformed, L(<<>>), D([hooks |-> D(NoMap), model |-> S("opus")])}
        \cup {D(e @@ h @@ ("model" :> S("opus"))) : e \in ConfigEnvParts, h \in ConfigHooksParts}

SettingsFiles == {NoFile} \cup {[exists |-> TRUE, doc |-> d] : d \in SettingsDocs}

KeyFiles == {NoKeyFile, [exists |-> TRUE, text |-> "sk-1\n"], [exists |-> TRUE, text |-> ""]}

HooksBackupFiles == {NoFile, [exists |-> TRUE, doc |-> StaleHooks],
                     [exists |-> TRUE, doc |-> Malformed]}

\* What the user types when asked for the key.
Inputs == {"", " sk-2 "}

InitConfig ==
    /\ HooksIdle
    /\ CallIdle
    /\ FileIdle
    /\ CopyIdle
    /\ claude_dir \in [settings_file : SettingsFiles, api_key_file : KeyFiles,
                       hooks_backup_file : HooksBackupFiles, backup_file : {NoFile}]
    /\ claude_dir.api_key_file.exists => ~claude_dir.hooks_backup_file.exists
    /\ last = NoOp
    /\ prev = NoOp
    /\ ops = 0

\* A toggle returned (or raised): the directory is what it left, last tells
\* what was called and how it ended, prev what was called before.
Returned(op, language, enabled, tty, input, outcome) ==
    /\ ops < MaxOps
    /\ ops' = ops + 1
    /\ claude_dir' = outcome.files
    /\ last' = [op |-> op, language |-> language, enabled |-> enabled,
                tty |-> tty, input |-> input,
                success |-> outcome.success, raised |-> outcome.raised,
                events |-> outcome.events, before |-> claude_dir]
    /\ prev' = last
    /\ UNCHANGED <<pc, hooks_vars, call_vars, file_vars, copy_vars>>

\* The choices that do not matter to a call are fixed, so that a call is one
\* step: no write is tried without a settings file.
Saves == IF claude_dir.settings_file.exists THEN SaveOutcomes ELSE {"ok"}
Oks == IF claude_dir.settings_file.exists THEN BOOLEAN ELSE {TRUE}

CallEnableProxy ==
    \E save \in Saves :
        Returned("enable_proxy", "", FALSE, FALSE, "", enable_proxy(claude_dir, save))

CallDisableProxy ==
    \E save \in Saves :
        Returned("disable_proxy", "", FALSE, FALSE, "", disable_proxy(claude_dir, save))

CallEnableDeepseek ==
    \E tty \in IF claude_dir.settings_file.exists /\ ~claude_dir.api_key_file.exists
               THEN BOOLEAN ELSE {FALSE} :
      \E input \in IF tty THEN Inputs ELSE {""} :
        \E key_ok \in IF claude_dir.api_key_file.exists \/ strip(input) # "" THEN Oks ELSE {TRUE} :
          LET obtained == _get_api_key(claude_dir, tty, input, key_ok).token # ""
          IN \E backup_ok \in IF obtained THEN Oks ELSE {TRUE} :
               \E save \in IF obtained THEN Saves ELSE {"ok"} :
                 Returned("enable_deepseek", "", FALSE, tty, input,
                          enable_deepseek(claude_dir, tty, input, key_ok, backup_ok, save))

CallDisableDeepseek ==
    \E backup_ok \in Oks : \E save \in Saves :
        Returned("disable_deepseek", "", FALSE, FALSE, "",
                 disable_deepseek(claude_dir, backup_ok, save))

CallEnableHooks ==
    \E save \in Saves :
        Returned("enable_hooks", "", FALSE, FALSE, "", enable_hooks(claude_dir, save))

CallDisableHooks ==
    \E hooks_save \in IF truthy(Get(_load_settings(claude_dir), "hooks", D(NoMap)))
                      THEN Saves ELSE {"ok"} :
      \E save \in Saves :
        Returned("disable_hooks", "", FALSE, FALSE, "",
                 disable_hooks(claude_dir, hooks_save, save))

\* The languages asked for: a supported one and one that is not.
Languages == {"go", "ruby"}

CallSetLanguageHookStatus ==
    \E language \in Languages : \E enabled \in BOOLEAN :
      \E save \in IF language \in SUPPORTED_LANGUAGES THEN Saves ELSE {"ok"} :
        Returned("set_language_hook_status", language, enabled, FALSE, "",
                 set_language_hook_status(claude_dir, language, enabled, save))

NextConfig ==
    \/ CallEnableProxy
    \/ CallDisableProxy
    \/ CallEnableDeepseek
    \/ CallDisableDeepseek
    \/ CallEnableHooks
    \/ CallDisableHooks
    \/ CallSetLanguageHookStatus

SpecConfig == InitConfig /\ [][NextConfig]_vars

(***************************************************************************)
(* Properties of merge_hooks (checked under SpecHooks)                     *)
(***************************************************************************)
Called == pc \in {"merged", "again"}

\* The events whose lists the loop merges: present in both sections.
SharedEvents == (DOMAIN hooks_in.target.m) \cap (DOMAIN hooks_in.source.m)

TargetList(e) == hooks_in.target.m[e].l
SourceList(e) == hooks_in.source.m[e].l
ResultList(e) == hooks_out.result.m[e].l

HooksOf(entry) == entry.m["hooks"].l
MatcherOf(entry) == entry.m["matcher"].s
CommandsIn(hooks) == {hooks[i].m["command"].s : i \in 1..Len(hooks)}
WithMatcher(configs, mt) == {i \in 1..Len(configs) : MatcherOf(configs[i]) = mt}

NoRepeatedMatcher(configs) ==
    \A i, j \in 1..Len(configs) :
        MatcherOf(configs[i]) = MatcherOf(configs[j]) => i = j

NoRepeatedCommand(hooks) ==
    \A i, j \in 1..Len(hooks) :
        hooks[i].m["command"] = hooks[j].m["command"] => i = j

\* C1: merging the same template T into merge_hooks(H, T) once more returns
\* merge_hooks(H, T) again, for every H and every T.
C1_HooksMergeIdempotent ==
    pc = "again" => hooks_out.again = hooks_out.result

\* C5: after merge_hooks every event list of the result holds at most one
\* MatcherEntry per matcher value.
C5_MatcherUnique ==
    Called => \A e \in DOMAIN hooks_out.result.m : NoRepeatedMatcher(ResultList(e))

\* C6: after merge_hooks every MatcherEntry of the result holds at most one
\* CommandEntry per command value.
C6_CommandUnique ==
    Called =>
        \A e \in DOMAIN hooks_out.result.m :
            \A i \in 1..Len(ResultList(e)) :
                NoRepeatedCommand(HooksOf(ResultList(e)[i]))

\* The command list that results from merging, one after the other, the
\* incoming entries source_configs[i..] whose matcher is mt into hooks: each
\* contributes its commands that are not yet present, in its own order.
RECURSIVE ExpectedCommands(_, _, _, _)
ExpectedCommands(hooks, source_configs, mt, i) ==
    IF i > Len(source_configs) THEN hooks
    ELSE IF MatcherOf(source_configs[i]) # mt
    THEN ExpectedCommands(hooks, source_configs, mt, i + 1)
    ELSE LET absent(hook) == hook.m["command"].s \notin CommandsIn(hooks)
         IN ExpectedCommands(hooks \o SelectSeq(HooksOf(source_configs[i]), absent),
                             source_configs, mt, i + 1)

NewEntries(e) ==
    LET known == {MatcherOf(TargetList(e)[i]) : i \in 1..Len(TargetList(e))}
        new(entry) == MatcherOf(entry) \notin known
    IN SelectSeq(SourceList(e), new)

C10_FirstMatcherWins ==
    Called =>
        \A e \in SharedEvents :
            \A mt \in Matchers :
                LET same == WithMatcher(TargetList(e), mt)
                    first == CHOOSE i \in same : \A j \in same : i <= j
                IN (Cardinality(same) >= 2 /\ WithMatcher(SourceList(e), mt) # {})
                   => /\ Len(ResultList(e)) = Len(TargetList(e)) + Len(NewEntries(e))
                      /\ HooksOf(ResultList(e)[first]) =
                            ExpectedCommands(HooksOf(TargetList(e)[first]), SourceList(e), mt, 1)
                      /\ \A j \in same \ {first} : ResultList(e)[j] = TargetList(e)[j]

IsPrefix(short, long) ==
    /\ Len(short) <= Len(long)
    /\ SubSeq(long, 1, Len(short)) = short

TargetOnlyEvents == (DOMAIN hooks_in.target.m) \ (DOMAIN hooks_in.source.m)

\* C11: the merge removes and reorders nothing of the target: an event that
\* only the target has is returned as it was, and under a shared event the
\* entry at each index of the target's list is at that index of the result,
\* with the same matcher and its commands a prefix of the result's commands.
C11_UserContentKept ==
    Called =>
        /\ \A e \in TargetOnlyEvents : hooks_out.result.m[e] = hooks_in.target.m[e]
        /\ \A e \in SharedEvents :
              /\ Len(TargetList(e)) <= Len(ResultList(e))
              /\ \A i \in 1..Len(TargetList(e)) :
                    /\ MatcherOf(ResultList(e)[i]) = MatcherOf(TargetList(e)[i])
                    /\ IsPrefix(HooksOf(TargetList(e)[i]), HooksOf(ResultList(e)[i]))

\* C11's case: under a shared event an entry of the target had a command and
\* received another one, and an entry was appended behind it.
C11_Witness ==
    /\ Called
    /\ \E e \in SharedEvents :
          /\ Len(ResultList(e)) > Len(TargetList(e))
          /\ \E i \in 1..Len(TargetList(e)) :
                /\ Len(HooksOf(TargetList(e)[i])) >= 1
                /\ Len(HooksOf(ResultList(e)[i])) > Len(HooksOf(TargetList(e)[i]))

(***************************************************************************)
(* Properties of merge_settings (checked under Spec)                       *)
(***************************************************************************)
Ran == runs >= 1
EnvOf(doc) == IF Has(doc, "env") THEN doc.m["env"].m ELSE NoMap
HadProxy == prev_file.exists /\ ProxyKeys \cap DOMAIN EnvOf(prev_file.doc) # {}

\* A run before the last one returned success.
SucceededBefore == succeeded - (IF result.success THEN 1 ELSE 0) >= 1

\* C2: once merge_settings has run successfully with a template, every
\* further run with the same template reports "no change" and leaves the
\* target file as the run before left it.
C2_RepeatedRunNoOp ==
    SucceededBefore => (result.success /\ result.skipped /\ target_file = prev_file)

SourceEnvIsMapping == ~Has(source_file, "env") \/ IsDict(source_file.m["env"])

GuardedSource ==
    IF HadProxy THEN filter_proxy_from_source(source_file) ELSE source_file

\* C4: for an existing target T0, after a successful run the file holds
\* merge(T0, S'), and "no change" is reported only when merge(T0, S') = T0.
C4_ChangePersisted ==
    (Ran /\ prev_file.exists /\ result.success) =>
        /\ target_file.doc = deep_merge_dict(prev_file.doc, GuardedSource)
        /\ result.skipped => deep_merge_dict(prev_file.doc, GuardedSource) = prev_file.doc

\* C7: after deep_merge_dict returned, the caller's target and source hold
\* the values they held before the call.
C7_DeepMergePure ==
    (Ran /\ prev_file.exists /\ result.success) =>
        /\ mem.target_data = prev_file.doc
        /\ mem.source_data = GuardedSource

\* The run started without a target file and with a template that parses.
WriteFailed == result.op = "write_failed"

\* and every write went through.
FirstInstall ==
    Ran /\ ~prev_file.exists /\ ~json_load_raises(source_file) /\ ~WriteFailed

Copied == result = [op |-> "copied", success |-> TRUE, skipped |-> FALSE]

\* C14: a run without a target file writes filter_proxy_from_source(source),
\* returns the successful, not skipped, "copied" result, and the written
\* document has neither env.http_proxy nor env.https_proxy.
C14_FirstInstallFiltered ==
    FirstInstall =>
        /\ Copied
        /\ target_file = [exists |-> TRUE, doc |-> filter_proxy_from_source(source_file)]
        /\ ProxyKeys \cap DOMAIN EnvOf(target_file.doc) = {}

\* C14, amended: the run writes filter_proxy_from_source(source) when the
\* source's env is a mapping with a proxy key and the source itself otherwise
\* (an env that is an empty mapping is written, not removed); the result and
\* the absence of the proxy keys are as stated.
C14_FirstInstallFilteredOnProxy ==
    FirstInstall =>
        /\ Copied
        /\ target_file.exists
        /\ target_file.doc = IF ProxyKeys \cap DOMAIN EnvOf(source_file) # {}
                             THEN filter_proxy_from_source(source_file)
                             ELSE source_file
        /\ ProxyKeys \cap DOMAIN EnvOf(target_file.doc) = {}

\* C14's case: the template's env holds a proxy key and another entry, and
\* the first run wrote the file.
C14_Witness ==
    /\ FirstInstall /\ Copied
    /\ ProxyKeys \cap DOMAIN EnvOf(source_file) # {}
    /\ (DOMAIN EnvOf(source_file)) \ ProxyKeys # {}
    /\ target_file.doc # source_file

\* The run started with a target file that parses.
MergedExisting == Ran /\ prev_file.exists /\ ~json_load_raises(prev_file.doc)

NoChange == result = [op |-> "nochange", success |-> TRUE, skipped |-> TRUE]

\* C15: with the empty document {} as the template, a run on any existing
\* target document reports "no change", writes nothing, and
\* deep_merge_dict(target, {}) is the target.
C15_EmptyTemplateNoOp ==
    (MergedExisting /\ source_file = D(NoMap)) =>
        /\ NoChange
        /\ target_file = prev_file
        /\ deep_merge_dict(prev_file.doc, D(NoMap)) = prev_file.doc

\* C16: a run whose template is the target document itself reports "no
\* change" and leaves the target file as it was.
C16_SelfMergeNoOp ==
    (MergedExisting /\ source_file = prev_file.doc) =>
        /\ NoChange
        /\ target_file = prev_file

\* The template, or the target file the run found, is not JSON.
ParseFails ==
    /\ Ran
    /\ \/ json_load_raises(source_file)
       \/ prev_file.exists /\ json_load_raises(prev_file.doc)

\* C20: when the template or the existing target does not parse, the run
\* returns the failure that carries the parse diagnostic and the target file
\* is as it was: not written, and not created when there was none.
C20_MalformedInputFails ==
    ParseFails =>
        /\ result = [op |-> "json_error", success |-> FALSE, skipped |-> FALSE]
        /\ target_file = prev_file

\* C20's case: the target file the run found is not JSON, the template is.
C20_Witness ==
    /\ ParseFails
    /\ ~json_load_raises(source_file)
    /\ target_file = [exists |-> TRUE, doc |-> Malformed]
    /\ result.op = "json_error"

\* C21: when the write of the merged document fails, at open or at a later
\* step, the run returns a failure and the target file holds what it held
\* before the run.
C21_WriteFailureAtomic ==
    (Ran /\ WriteFailed) =>
        /\ ~result.success
        /\ target_file = prev_file

\* The template's env is a mapping with a proxy key.
TemplateHasProxy == ProxyKeys \cap DOMAIN EnvOf(source_file) # {}

\* C28: starting without a target file, after any number of successful runs
\* with a template whose env holds a proxy key, the target's env holds
\* neither http_proxy nor https_proxy.
C28_TemplateProxyNotInherited ==
    (Ran /\ ~start_file.exists /\ succeeded = runs /\ TemplateHasProxy) =>
        ProxyKeys \cap DOMAIN EnvOf(target_file.doc) = {}

(***************************************************************************)
(* Properties of the proxy guard (checked under SpecGuard)                 *)
(***************************************************************************)
\* env is present, is a mapping and has one of the proxy keys.
HasProxyKey(doc) ==
    /\ Has(doc, "env")
    /\ IsDict(doc.m["env"])
    /\ ProxyKeys \cap DOMAIN doc.m["env"].m # {}

\* C12: should_preserve_proxy_config returns for every target document, env
\* absent, null or not a mapping included, and returns true exactly when env
\* is present and has the key http_proxy or https_proxy.
C12_GuardTotal ==
    pc = "should_preserve" =>
        /\ ~call_out.raised
        /\ call_out.flag <=> HasProxyKey(call_in.target)

\* The entries of a document's env when env is a mapping, none otherwise.
EnvEntries(doc) ==
    IF Has(doc, "env") /\ IsDict(doc.m["env"]) THEN doc.m["env"].m ELSE NoMap

\* C13: the document filter_proxy_from_source returns has no proxy key in its
\* env and no env left empty by the removal, holds every other env entry and
\* every other top-level key as the source does, and the source is as it was.
C13_FilterResult ==
    pc = "filter" =>
        LET source == call_in.source
            filtered == call_out.value
        IN /\ ~HasProxyKey(filtered)
           /\ (DOMAIN EnvEntries(source)) \ ProxyKeys = {}
                 => ~(Has(filtered, "env") /\ IsDict(filtered.m["env"]))
           /\ DOMAIN EnvEntries(filtered) = (DOMAIN EnvEntries(source)) \ ProxyKeys
           /\ \A key \in DOMAIN EnvEntries(filtered) :
                 EnvEntries(filtered)[key] = EnvEntries(source)[key]
           /\ (DOMAIN filtered.m) \ {"env"} = (DOMAIN source.m) \ {"env"}
           /\ \A key \in (DOMAIN source.m) \ {"env"} : filtered.m[key] = source.m[key]
           /\ call_out.source = source

\* C13's case: the source's env holds a proxy key and another entry, and the
\* source has another top-level key.
C13_Witness ==
    /\ pc = "filter"
    /\ ProxyKeys \cap DOMAIN EnvEntries(call_in.source) # {}
    /\ (DOMAIN EnvEntries(call_in.source)) \ ProxyKeys # {}
    /\ Has(call_in.source, "x")
    /\ call_out.value # call_in.source

(***************************************************************************)
(* Properties of deep_merge_dict (checked under SpecMerge)                 *)
(***************************************************************************)
Merged == pc = "deep_merge" /\ ~call_out.raised

\* The keys under which both documents hold a list.
ListKeys(target, source) ==
    {key \in (DOMAIN target.m) \cap (DOMAIN source.m) :
        IsList(target.m[key]) /\ IsList(source.m[key])}

\* combined from position i on, without the scalars that occur before.
RECURSIVE FirstOccurrences(_, _)
FirstOccurrences(combined, i) ==
    IF i > Len(combined) THEN <<>>
    ELSE IF IsDict(combined[i]) \/ \A j \in 1..(i - 1) : combined[j] # combined[i]
    THEN <<combined[i]>> \o FirstOccurrences(combined, i + 1)
    ELSE FirstOccurrences(combined, i + 1)

\* C17: under a key that holds a list in both documents the merged list is
\* the target's list followed by the source's, with every mapping element
\* kept and every scalar kept at its first occurrence only, in that order.
C17_ListRule ==
    Merged =>
        \A key \in ListKeys(call_in.target, call_in.source) :
            /\ IsList(call_out.value.m[key])
            /\ call_out.value.m[key].l =
                  FirstOccurrences(call_in.target.m[key].l \o call_in.source.m[key].l, 1)

\* The keys both documents have with values that are neither two mappings
\* nor two lists.
MismatchKeys(target, source) ==
    {key \in (DOMAIN target.m) \cap (DOMAIN source.m) :
        /\ ~(IsDict(target.m[key]) /\ IsDict(source.m[key]))
        /\ ~(IsList(target.m[key]) /\ IsList(source.m[key]))}

\* C18: deep_merge_dict returns for every pair of documents made of scalars,
\* lists (lists of lists included) and mappings, and under a key whose two
\* values are neither two mappings nor two lists the result holds the
\* source's value.
C18_MismatchOverrides ==
    pc = "deep_merge" =>
        /\ ~call_out.raised
        /\ \A key \in MismatchKeys(call_in.target, call_in.source) :
              call_out.value.m[key] = call_in.source.m[key]

\* At this level and at every level below it that the merge reaches: the
\* merged mapping has the keys of both, a key of the target alone has the
\* target's value and a key of the source alone has the source's.
RECURSIVE KeepsKeys(_, _, _)
KeepsKeys(target, source, merged) ==
    /\ IsDict(merged)
    /\ DOMAIN merged.m = (DOMAIN target.m) \cup (DOMAIN source.m)
    /\ \A key \in (DOMAIN target.m) \ (DOMAIN source.m) : merged.m[key] = target.m[key]
    /\ \A key \in (DOMAIN source.m) \ (DOMAIN target.m) : merged.m[key] = source.m[key]
    /\ \A key \in (DOMAIN target.m) \cap (DOMAIN source.m) :
          (IsDict(target.m[key]) /\ IsDict(source.m[key]) /\ key # "hooks")
              => KeepsKeys(target.m[key], source.m[key], merged.m[key])

\* C19: at every level of mappings deep_merge_dict reaches, the keys of the
\* target alone keep the target's value, the keys of the source alone take
\* the source's, and no key of either is missing.
C19_UserKeysKept ==
    Merged => KeepsKeys(call_in.target, call_in.source, call_out.value)

\* C19's case: below a key of both documents, the target's mapping has a key
\* the source's has not, and the source's has one the target's has not.
C19_Witness ==
    /\ Merged
    /\ \E key \in (DOMAIN call_in.target.m) \cap (DOMAIN call_in.source.m) :
          /\ IsDict(call_in.target.m[key]) /\ IsDict(call_in.source.m[key])
          /\ (DOMAIN call_in.target.m[key].m) \ (DOMAIN call_in.source.m[key].m) # {}
          /\ (DOMAIN call_in.source.m[key].m) \ (DOMAIN call_in.target.m[key].m) # {}
          /\ (DOMAIN call_in.source.m) \ (DOMAIN call_in.target.m) # {}

(***************************************************************************)
(* Properties of run_copy_operation (SpecCopy)                             *)
(***************************************************************************)
\* A copy_file call made while copying the item returned a failure.
RECURSIVE FileCopyFailed(_)
FileCopyFailed(item) ==
    \/ item.kind = "file" /\ item.out = "failed"
    \/ /\ item.kind = "dir" /\ item.out = "ok"
       /\ \E i \in 1..Len(item.items) : FileCopyFailed(item.items[i])

AnyFileCopyFailed ==
    \E i \in 1..Len(copy_in.items) : FileCopyFailed(copy_in.items[i])

\* C22: when a file copy made by run_copy_operation returns a failure, be it
\* for a file inside a copied directory, run_copy_operation counts an error
\* and returns False.
C22_ErrorsPropagate ==
    (copy_out.done /\ copy_in.created /\ AnyFileCopyFailed) =>
        /\ copy_out.error_count >= 1
        /\ copy_out.ret = FALSE

(***************************************************************************)
(* Properties of the ConfigManager toggles (SpecConfig)                    *)
(***************************************************************************)
Toggled(op) == ops >= 1 /\ last.op = op

\* settings.json before and after the last toggle
SettingsBefore == last.before.settings_file
SettingsAfter == claude_dir.settings_file

\* settings.json existed and parsed when the last toggle was called.
ParsedBefore == SettingsBefore.exists /\ ~json_load_raises(SettingsBefore.doc)

Position(events, event) == {i \in 1..Len(events) : events[i] = event}

\* Every write of settings.json comes after a backup step.
BackupBeforeWrite(events) ==
    \A i \in Position(events, "write") : \E j \in Position(events, "backup") : j < i

\* C23: in enable_proxy, disable_proxy, enable_deepseek and disable_deepseek
\* the backup step runs before settings.json is written.
C23_BackupPrecedesWrite ==
    (ops >= 1 /\ last.op \in {"enable_proxy", "disable_proxy",
                              "enable_deepseek", "disable_deepseek"}) =>
        BackupBeforeWrite(last.events)

\* C24: for a settings document that parses, after a successful enable_proxy
\* env.http_proxy and env.https_proxy are the configured proxy host, a hooks
\* value that was present is unchanged, and every other top-level key but env
\* keeps its value.
C24_EnableProxyKeepsHooks ==
    (Toggled("enable_proxy") /\ last.success /\ ParsedBefore) =>
        LET before == SettingsBefore.doc
            after == SettingsAfter.doc
        IN /\ SettingsAfter.exists /\ IsDict(after)
           /\ {"http_proxy", "https_proxy"} \subseteq DOMAIN EnvOf(after)
           /\ EnvOf(after)["http_proxy"] = S(proxy_host)
           /\ EnvOf(after)["https_proxy"] = S(proxy_host)
           /\ Has(before, "hooks") =>
                 Has(after, "hooks") /\ after.m["hooks"] = before.m["hooks"]
           /\ \A key \in (DOMAIN before.m) \ {"env"} :
                 Has(after, key) /\ after.m[key] = before.m[key]

\* enable_proxy succeeded on a document with hooks, another key and a proxy
\* of the user's.
C24_Witness ==
    /\ Toggled("enable_proxy") /\ last.success /\ ParsedBefore
    /\ Get(SettingsBefore.doc, "hooks", Null) = UserHooks
    /\ Has(SettingsBefore.doc, "model")
    /\ "http_proxy" \in DOMAIN EnvOf(SettingsBefore.doc)

\* C25: after a successful disable_deepseek on a document that parses, env
\* has none of the four DeepSeek keys, every other env entry keeps its value,
\* env is gone only if nothing was left in it, and the saved API key file is
\* unchanged.
C25_DisableDeepseekOwnKeys ==
    (Toggled("disable_deepseek") /\ last.success /\ ParsedBefore) =>
        LET before == EnvOf(SettingsBefore.doc)
            after == EnvOf(SettingsAfter.doc)
        IN /\ SettingsAfter.exists /\ IsDict(SettingsAfter.doc)
           /\ deepseek_keys \cap DOMAIN after = {}
           /\ \A key \in (DOMAIN before) \ deepseek_keys :
                 key \in DOMAIN after /\ after[key] = before[key]
           /\ ~Has(SettingsAfter.doc, "env") => (DOMAIN before) \subseteq deepseek_keys
           /\ claude_dir.api_key_file = last.before.api_key_file

\* disable_deepseek succeeded on an env with a DeepSeek key and a key of the
\* user's, with a saved API key.
C25_Witness ==
    /\ Toggled("disable_deepseek") /\ last.success /\ ParsedBefore
    /\ {"ANTHROPIC_AUTH_TOKEN", "EDITOR"} \subseteq DOMAIN EnvOf(SettingsBefore.doc)
    /\ last.before.api_key_file.exists

\* The hooks of settings.json before the toggle called before the last one.
HooksBeforePrev == Get(prev.before.settings_file.doc, "hooks", D(NoMap))

\* The last two toggles were disable_hooks on a non-empty hooks mapping and
\* then enable_hooks, both successful.
HooksOffOn ==
    /\ Toggled("enable_hooks") /\ last.success
    /\ prev.op = "disable_hooks" /\ prev.success
    /\ IsDict(HooksBeforePrev) /\ HooksBeforePrev.m # NoMap

\* C26: disable_hooks on a non-empty hooks mapping H removes the hooks key
\* and stores H in the hooks backup file, a following enable_hooks (both
\* successful) sets hooks to H again, and the built-in hooks are used only
\* when there is no backup file or it cannot be read.
C26_HooksRoundTrip ==
    /\ HooksOffOn =>
          /\ ~Has(SettingsBefore.doc, "hooks")
          /\ last.before.hooks_backup_file = [exists |-> TRUE, doc |-> HooksBeforePrev]
          /\ Get(SettingsAfter.doc, "hooks", Null) = HooksBeforePrev
    /\ (Toggled("enable_hooks") /\ last.success
           /\ Get(SettingsAfter.doc, "hooks", Null) = default_hooks) =>
          \/ ~last.before.hooks_backup_file.exists
          \/ json_load_raises(last.before.hooks_backup_file.doc)

\* No key file, and nothing typed: no terminal, or an empty line.
NoKeyObtainable ==
    /\ ~last.before.api_key_file.exists
    /\ ~last.tty \/ strip(last.input) = ""

\* C27: enable_deepseek with no obtainable API key returns a failure, makes
\* no backup file and does not write settings.json.
C27_NoKeyNoChange ==
    (Toggled("enable_deepseek") /\ NoKeyObtainable) =>
        /\ ~last.success /\ ~last.raised
        /\ Position(last.events, "backup") = {}
        /\ Position(last.events, "write") = {}
        /\ claude_dir = last.before

\* enable_deepseek was called on an existing settings.json, without a key
\* file, and the user typed an empty line.
C27_Witness ==
    /\ Toggled("enable_deepseek") /\ NoKeyObtainable
    /\ SettingsBefore.exists
    /\ last.tty

\* C29: a successful enable_proxy or disable_proxy leaves every env entry
\* that is not a proxy key as it was, so check_deepseek_status and
\* check_language_hook_status of every supported language return what they
\* returned before.
C29_ProxyTogglesOnlyProxyKeys ==
    (ops >= 1 /\ last.op \in {"enable_proxy", "disable_proxy"} /\ last.success) =>
        LET before == EnvOf(SettingsBefore.doc)
            after == EnvOf(SettingsAfter.doc)
        IN /\ \A key \in (DOMAIN before) \ ProxyKeys :
                 key \in DOMAIN after /\ after[key] = before[key]
           /\ check_deepseek_status(claude_dir) = check_deepseek_status(last.before)
           /\ \A language \in SUPPORTED_LANGUAGES :
                 check_language_hook_status(claude_dir, language)
                    = check_language_hook_status(last.before, language)

Toggles == {"enable_proxy", "disable_proxy", "enable_hooks", "disable_hooks",
            "enable_deepseek", "disable_deepseek", "set_language_hook_status"}

\* C30: when settings.json exists and does not parse, every toggle returns a
\* failure and leaves the file's content as it was.
C30_UnreadableNotOverwritten ==
    (ops >= 1 /\ last.op \in Toggles
        /\ SettingsBefore.exists /\ json_load_raises(SettingsBefore.doc)) =>
        /\ ~last.success
        /\ SettingsAfter = SettingsBefore

====
